---- MODULE Spec2Model ----
(***************************************************************************)
(* Model of PETechTest/large-dataset-generator.py: the field samplers, the *)
(* row assembly and csv serialisation, and the size-targeting generation   *)
(* loop of generate_large_csv with its file handling and error cleanup.    *)
(*                                                                         *)
(* Text is a sequence of one-character strings, so that lengths, line      *)
(* terminators and individual characters can be inspected.  A sampler is   *)
(* an operator of its arguments and of the values it draws from the random *)
(* source; the actions choose the draws.                                   *)
(***************************************************************************)
EXTENDS Integers, Sequences, FiniteSets, TLC

VARIABLES
    pc,                \* position of generate_large_csv
    target_gb,         \* argument, fixed point: Resolution units per byte
    target_bytes,
    num_rows_estimate,
    i,                 \* loop index of the generation loop
    dirExists,         \* /tmp/data_generation exists
    fileExists,        \* a file exists at filepath
    diskSize,          \* size of that file once nothing is buffered
    handleOpen,        \* csvfile is open
    written,           \* bytes handed to csvfile since it was opened
    firstLine,         \* the line written at offset 0 of the file
    lastLine,          \* the line most recently written
    lastBytes,         \* bytes the most recent writerow added
    headerWrites,      \* number of writerow(headers) calls
    rowsWritten,       \* number of data rows written
    row,               \* the row most recently assembled
    current_bytes,     \* the running estimate
    progress,          \* number of progress reports printed
    queried,           \* loop indexes at which os.path.getsize was called
    actual_size,       \* the size most recently returned in the loop
    stopped,           \* the loop was left by break
    failedAt,          \* the step at which an I/O error was raised
    closedAtRemove,    \* csvfile state when os.remove was called
    escaped,           \* the step whose exception left generate_large_csv
    start_year,        \* arguments and result of a generate_date call
    end_year,
    datePc,
    dateOut

vars == <<pc, target_gb, target_bytes, num_rows_estimate, i, dirExists,
          fileExists, diskSize, handleOpen, written, firstLine, lastLine,
          lastBytes, headerWrites, rowsWritten, row, current_bytes, progress,
          queried, actual_size, stopped, failedAt, closedAtRemove, escaped,
          start_year, end_year, datePc, dateOut>>

runVars == <<pc, target_gb, target_bytes, num_rows_estimate, i, dirExists,
             fileExists, diskSize, handleOpen, written, firstLine, lastLine,
             lastBytes, headerWrites, rowsWritten, current_bytes, progress,
             queried, actual_size, stopped, failedAt, closedAtRemove, escaped>>

dateVars == <<start_year, end_year, datePc, dateOut>>

(***************************************************************************)
(* Bounds of the model.                                                    *)
(***************************************************************************)
\* the periodic size check interval, 50000 in the program, scaled down
CheckInterval == 3
\* the largest estimated row count of a modelled run: two periodic checks
MaxRows == 2 * CheckInterval + 1
\* fixed-point resolution of target_gb: units per byte
Resolution == 2
\* widest year range given to generate_date besides the default one
MaxSpan == 1
\* size of a file left at filepath by an earlier run
PriorSize == 2000

(***************************************************************************)
(* Text helpers: str(), format specs, str.join, str.upper.                 *)
(***************************************************************************)
DigitChars == <<"0","1","2","3","4","5","6","7","8","9">>

HexChars == <<"0","1","2","3","4","5","6","7","8","9","a","b","c","d","e","f">>

Digit(n) == DigitChars[n + 1]

RECURSIVE Str(_)
\* str(n) for an int n >= 0
Str(n) == IF n < 10 THEN <<Digit(n)>> ELSE Str(n \div 10) \o <<Digit(n % 10)>>

RECURSIVE ZeroPad(_, _)
\* the format spec 0w applied to text s
ZeroPad(s, w) == IF Len(s) >= w THEN s ELSE ZeroPad(<<"0">> \o s, w)

RECURSIVE Join(_, _)
\* sep.join(fields)
Join(fields, sep) ==
    IF fields = <<>> THEN <<>>
    ELSE IF Len(fields) = 1 THEN fields[1]
    ELSE fields[1] \o sep \o Join(Tail(fields), sep)

\* str.upper on one character
Upper(c) ==
    CASE c = "a" -> "A" [] c = "b" -> "B" [] c = "c" -> "C"
      [] c = "d" -> "D" [] c = "e" -> "E" [] c = "f" -> "F"
      [] OTHER -> c

\* str.upper
UpperText(s) == [k \in 1..Len(s) |-> Upper(s[k])]

(***************************************************************************)
(* The random source.                                                      *)
(***************************************************************************)
\* random.randrange(n): 0 <= result < n; ValueError when n <= 0
RandRange(n) == 0..(n - 1)

\* random.randint(a, b) includes both ends; the draws taken from it are
\* its two ends
Ends(a, b) == {a, b}

(***************************************************************************)
(* generate_phone_number                                                   *)
(***************************************************************************)
\* keys of the prefixes dict
prefixes == {<<"4","4">>, <<"3","5","3">>, <<"1">>, <<"4","9">>, <<"3","3">>, <<>>}

\* ''.join([str(random.randint(0, 9)) for _ in range(n)]), digits from seed
RandomDigits(n, seed) == [k \in 1..n |-> Digit((seed + k) % 10)]

\* draws: emptyHit = random() < 0.01, shortHit = random() < 0.02,
\* shortcode, prefix_choice, the digit count of each branch, seed
generate_phone_number(allow_shortcode, allow_empty, d) ==
    IF allow_empty /\ d.emptyHit THEN <<>>
    ELSE IF allow_shortcode /\ d.shortHit THEN Str(d.shortcode)
    ELSE IF d.prefix_choice = <<>>
         THEN RandomDigits(d.local_len, d.seed)
         ELSE d.prefix_choice \o RandomDigits(d.long_len, d.seed)

\* the prefixes drawn: the most likely, the longest and the empty one
PrefixDraws == prefixes \cap {<<"4","4">>, <<"3","5","3">>, <<>>}

PhoneDraws ==
    [emptyHit : BOOLEAN, shortHit : BOOLEAN,
     shortcode : Ends(10000, 999999),
     prefix_choice : PrefixDraws,
     local_len : Ends(7, 10),
     long_len : Ends(9, 12),
     seed : {0}]

(***************************************************************************)
(* generate_date                                                           *)
(***************************************************************************)
IsLeap(y) == (y % 4 = 0 /\ y % 100 # 0) \/ y % 400 = 0

DaysInYear(y) == IF IsLeap(y) THEN 366 ELSE 365

DaysInMonth(y, m) ==
    IF m = 2 THEN (IF IsLeap(y) THEN 29 ELSE 28)
    ELSE IF m \in {4, 6, 9, 11} THEN 30 ELSE 31

RECURSIVE DaysOfYears(_, _)
\* number of days in the years a..b
DaysOfYears(a, b) == IF a > b THEN 0 ELSE DaysInYear(a) + DaysOfYears(a + 1, b)

RECURSIVE DaysBeforeMonth(_, _)
\* number of days of year y before its month m
DaysBeforeMonth(y, m) ==
    IF m <= 1 THEN 0 ELSE DaysInMonth(y, m - 1) + DaysBeforeMonth(y, m - 1)

\* datetime.date(sy, 1, 1) + timedelta(days = k), k >= 0, as
\* <<year, month, day>>
AddDays(sy, k) ==
    LET y == CHOOSE c \in sy..(sy + k \div 365) :
                 DaysOfYears(sy, c - 1) <= k /\ k < DaysOfYears(sy, c)
        r == k - DaysOfYears(sy, y - 1)
        m == CHOOSE c \in 1..12 :
                 DaysBeforeMonth(y, c) <= r /\ r < DaysBeforeMonth(y, c + 1)
    IN  <<y, m, r - DaysBeforeMonth(y, m) + 1>>

\* (end_date - start_date).days, end_date = Dec 31 of end_year and
\* start_date = Jan 1 of start_year
days_between_dates(sy, ey) ==
    IF sy <= ey THEN DaysOfYears(sy, ey) - 1
    ELSE -(DaysOfYears(ey + 1, sy - 1) + 1)

\* strftime("%d/%m/%Y")
strftime(date) ==
    ZeroPad(Str(date[3]), 2) \o <<"/">> \o ZeroPad(Str(date[2]), 2)
        \o <<"/">> \o ZeroPad(Str(date[1]), 4)

\* the offsets random.randrange(days_between_dates) can return
DateOffsets(sy, ey) == RandRange(days_between_dates(sy, ey))

\* draw: random_number_of_days
generate_date(sy, ey, random_number_of_days) ==
    strftime(AddDays(sy, random_number_of_days))

DefaultStartYear == 2015

DefaultEndYear == 2024

(***************************************************************************)
(* generate_time, generate_duration, generate_cost                         *)
(***************************************************************************)
\* draws: the three randint values
generate_time(h, m, s) ==
    ZeroPad(Str(h), 2) \o <<":">> \o ZeroPad(Str(m), 2) \o <<":">> \o ZeroPad(Str(s), 2)

TimeDraws == {<<h, m, s>> : h \in Ends(0, 23), m \in Ends(0, 59),
                            s \in Ends(0, 59)}

\* draws: r1 = random() < 0.7, r2 = random() < 0.95, one randint per tier
generate_duration_wide(d) ==
    IF d.r1 THEN d.short ELSE IF d.r2 THEN d.medium ELSE 2 * d.long

generate_duration(d) ==
    IF d.r1 THEN d.short ELSE IF d.r2 THEN d.medium ELSE d.long

DurationDraws ==
    [r1 : BOOLEAN, r2 : BOOLEAN, short : Ends(1, 600),
     medium : Ends(601, 3600), long : Ends(3601, 7200)]

\* draws: zeroHit = random() < 0.6, cost_val in thousandths (the rounded
\* uniform(0.001, 5.0)), intHit = random() < 0.2
generate_cost(d) ==
    IF d.zeroHit THEN <<"0">>
    ELSE IF d.cost_val % 1000 = 0 /\ d.intHit THEN Str(d.cost_val \div 1000)
    ELSE Str(d.cost_val \div 1000) \o <<".">> \o ZeroPad(Str(d.cost_val % 1000), 3)

CostDraws == [zeroHit : BOOLEAN, cost_val : {1, 5000}, intHit : BOOLEAN]

(***************************************************************************)
(* generate_reference, generate_currency                                   *)
(***************************************************************************)
\* the 32 nibbles of a uuid4: random except version 4 and variant 10xx
Uuid4(a, b) ==
    [k \in 1..32 |-> IF k = 13 THEN 4
                     ELSE IF k = 17 THEN 8 + (b % 4)
                     ELSE IF k % 2 = 1 THEN a ELSE b]

\* uuid.hex: 32 lower-case hexadecimal digits
Hex(u) == [k \in 1..Len(u) |-> HexChars[u[k] + 1]]

\* draws: the random nibbles
generate_reference(a, b) == UpperText(Hex(Uuid4(a, b)))

ReferenceDraws == {<<0, 9>>, <<15, 11>>}

\* keys of the currencies dict; random.choices returns one of them
currencies == {<<"G","B","P">>, <<"U","S","D">>, <<"E","U","R">>}

(***************************************************************************)
(* Row assembly and csv.writer (the excel dialect)                         *)
(***************************************************************************)
headers_short ==
    << <<"c","a","l","l","e","r">>,
       <<"r","e","c","i","p","i","e","n","t">>,
       <<"c","a","l","l","_","d","a","t","e">>,
       <<"e","n","d","_","t","i","m","e">>,
       <<"d","u","r","a","t","i","o","n">>,
       <<"c","o","s","t">>,
       <<"r","e","f","e","r","e","n","c","e">>,
       <<"c","u","r","r","e","n","c","y">> >>

\* the headers list, line 82
headers ==
    << <<"c","a","l","l","e","r","_","i","d">>,
       <<"r","e","c","i","p","i","e","n","t">>,
       <<"c","a","l","l","_","d","a","t","e">>,
       <<"e","n","d","_","t","i","m","e">>,
       <<"d","u","r","a","t","i","o","n">>,
       <<"c","o","s","t">>,
       <<"r","e","f","e","r","e","n","c","e">>,
       <<"c","u","r","r","e","n","c","y">> >>

\* the row list of the loop body, from the samplers' results
AssembleRow(caller, recipient, date, time, duration, cost, reference, currency) ==
    <<caller, recipient, date, time, Str(duration), cost, reference, currency>>

\* the dialect's line terminator
lineterminator == <<"\r", "\n">>

NeedsQuote(f) == \E k \in 1..Len(f) : f[k] \in {",", "\"", "\r", "\n"}

RECURSIVE DoubleQuotes(_)
DoubleQuotes(f) ==
    IF f = <<>> THEN <<>>
    ELSE (IF Head(f) = "\"" THEN <<"\"", "\"">> ELSE <<Head(f)>>) \o DoubleQuotes(Tail(f))

\* QUOTE_MINIMAL
QuoteField(f) ==
    IF NeedsQuote(f) THEN <<"\"">> \o DoubleQuotes(f) \o <<"\"">> ELSE f

\* the text writer.writerow(fields) hands to csvfile.write
writerow(fields) ==
    Join([k \in 1..Len(fields) |-> QuoteField(fields[k])], <<",">>) \o lineterminator

\* csvfile was opened with newline='': write translates nothing; utf-8
\* encodes each of these characters in one byte
EncodedBytes(text) == Len(text)

\* len(','.join(map(str, fields))) + 2
EstimatedBytes(fields) == Len(Join(fields, <<",">>)) + 2

(***************************************************************************)
(* The rows a modelled run of generate_large_csv writes: the shortest and  *)
(* the longest row the samplers produce, and an ordinary one.              *)
(***************************************************************************)
PhoneDraw(e, sh, code, pre, n) ==
    [emptyHit |-> e, shortHit |-> sh, shortcode |-> code, prefix_choice |-> pre,
     local_len |-> n, long_len |-> n, seed |-> 0]

ShortRow ==
    AssembleRow(generate_phone_number(FALSE, TRUE, PhoneDraw(TRUE, FALSE, 10000, <<>>, 7)),
                generate_phone_number(TRUE, FALSE, PhoneDraw(FALSE, TRUE, 10000, <<>>, 7)),
                generate_date(DefaultStartYear, DefaultEndYear, 0),
                generate_time(0, 0, 0),
                generate_duration([r1 |-> TRUE, r2 |-> TRUE, short |-> 1,
                                   medium |-> 601, long |-> 3601]),
                generate_cost([zeroHit |-> TRUE, cost_val |-> 1, intHit |-> FALSE]),
                generate_reference(0, 9),
                <<"G","B","P">>)

LongRow ==
    AssembleRow(generate_phone_number(FALSE, TRUE, PhoneDraw(FALSE, FALSE, 10000, <<"3","5","3">>, 12)),
                generate_phone_number(TRUE, FALSE, PhoneDraw(FALSE, FALSE, 10000, <<"3","5","3">>, 12)),
                generate_date(DefaultStartYear, DefaultEndYear, 424),
                generate_time(23, 59, 59),
                generate_duration([r1 |-> FALSE, r2 |-> FALSE, short |-> 600,
                                   medium |-> 3600, long |-> 7200]),
                generate_cost([zeroHit |-> FALSE, cost_val |-> 1250, intHit |-> FALSE]),
                generate_reference(15, 11),
                <<"E","U","R">>)

OrdinaryRow ==
    AssembleRow(generate_phone_number(FALSE, TRUE, PhoneDraw(FALSE, FALSE, 10000, <<"4","4">>, 10)),
                generate_phone_number(TRUE, FALSE, PhoneDraw(FALSE, FALSE, 10000, <<"4","4">>, 10)),
                generate_date(DefaultStartYear, DefaultEndYear, 593),
                generate_time(14, 21, 33),
                generate_duration([r1 |-> TRUE, r2 |-> TRUE, short |-> 43,
                                   medium |-> 601, long |-> 3601]),
                generate_cost([zeroHit |-> TRUE, cost_val |-> 1, intHit |-> FALSE]),
                generate_reference(10, 15),
                <<"G","B","P">>)

RunRows == {ShortRow, LongRow, OrdinaryRow}

(***************************************************************************)
(* generate_large_csv                                                      *)
(***************************************************************************)
avg_row_bytes_estimate == 125

\* int(x) of x = n / d, d > 0: truncation towards zero
IntTrunc(n, d) == IF n >= 0 THEN n \div d ELSE -((-n) \div d)

\* the byte targets the modelled runs aim at
ByteTargets ==
    {0, 1, 73, 74}
        \cup {avg_row_bytes_estimate * k + o : k \in 1..MaxRows, o \in {0, 124}}

\* target_gb arguments, in units of 1 / (Resolution * 2^30) GB
TargetGbs ==
    {Resolution * t : t \in ByteTargets}
        \cup {Resolution * t + (Resolution - 1) : t \in {0, 73}}
        \cup {-g : g \in {1, Resolution, Resolution + 1, 126 * Resolution}}

\* the periodic check of the loop body
ShouldCheck_first(n) == n % CheckInterval = 0

ShouldCheck(n) == n % CheckInterval = 0 /\ n > 0

\* (i + 1) % 100000 == 0, the progress interval being twice the check interval
ShouldReport(n) == (n + 1) % (2 * CheckInterval) = 0

\* the sizes os.path.getsize can return while csvfile buffers its writes:
\* from nothing flushed yet to everything flushed
GetSize(onDisk, handed) == {onDisk, handed}

InitRun ==
    /\ pc = "start"
    /\ target_gb \in TargetGbs
    /\ target_bytes = 0
    /\ num_rows_estimate = 0
    /\ i = 0
    /\ dirExists \in BOOLEAN
    /\ fileExists \in BOOLEAN
    /\ fileExists => dirExists
    /\ diskSize = IF fileExists THEN PriorSize ELSE 0
    /\ handleOpen = FALSE
    /\ written = 0
    /\ firstLine = <<>>
    /\ lastLine = <<>>
    /\ lastBytes = 0
    /\ headerWrites = 0
    /\ rowsWritten = 0
    /\ current_bytes = 0
    /\ progress = 0
    /\ queried = {}
    /\ actual_size = -1
    /\ stopped = FALSE
    /\ failedAt = "none"
    /\ closedAtRemove = "none"
    /\ escaped = "none"

DateIdle ==
    /\ start_year = DefaultStartYear
    /\ end_year = DefaultEndYear
    /\ datePc = "idle"
    /\ dateOut = <<>>

Init == InitRun /\ DateIdle /\ row = <<>>

\* lines 83-91
Estimate ==
    /\ pc = "start"
    /\ target_bytes' = IntTrunc(target_gb, Resolution)
    /\ num_rows_estimate' = IntTrunc(target_gb, Resolution) \div avg_row_bytes_estimate
    /\ pc' = "makedirs"
    /\ UNCHANGED <<target_gb, i, dirExists, fileExists, diskSize, handleOpen,
                   written, firstLine, lastLine, lastBytes, headerWrites,
                   rowsWritten, row, current_bytes, progress, queried,
                   actual_size, stopped, failedAt, closedAtRemove, escaped>>
    /\ UNCHANGED dateVars

\* os.makedirs(output_dir, exist_ok=True), outside the try statement
MakeDirs ==
    /\ pc = "makedirs"
    /\ \E ok \in BOOLEAN :
          IF ok
          THEN /\ dirExists' = TRUE
               /\ pc' = "open"
               /\ UNCHANGED <<failedAt, escaped>>
          ELSE /\ failedAt' = "makedirs"
               /\ escaped' = "makedirs"
               /\ pc' = "raised"
               /\ UNCHANGED dirExists
    /\ UNCHANGED <<target_gb, target_bytes, num_rows_estimate, i, fileExists,
                   diskSize, handleOpen, written, firstLine, lastLine, lastBytes,
                   headerWrites, rowsWritten, row, current_bytes, progress,
                   queried, actual_size, stopped, closedAtRemove>>
    /\ UNCHANGED dateVars

OpenFile_append ==
    /\ pc = "open"
    /\ \E ok \in BOOLEAN :
          IF ok
          THEN /\ fileExists' = TRUE
               /\ handleOpen' = TRUE
               /\ written' = diskSize
               /\ pc' = "header"
               /\ UNCHANGED <<failedAt, diskSize>>
          ELSE /\ failedAt' = "open"
               /\ pc' = "except"
               /\ UNCHANGED <<fileExists, diskSize, handleOpen, written>>
    /\ UNCHANGED <<target_gb, target_bytes, num_rows_estimate, i, dirExists,
                   firstLine, lastLine, lastBytes, headerWrites, rowsWritten,
                   row, current_bytes, progress, queried, actual_size, stopped,
                   closedAtRemove, escaped>>
    /\ UNCHANGED dateVars

\* open(filepath, 'w', ...): creates or truncates the file
OpenFile ==
    /\ pc = "open"
    /\ \E ok \in BOOLEAN :
          IF ok
          THEN /\ fileExists' = TRUE
               /\ diskSize' = 0
               /\ handleOpen' = TRUE
               /\ written' = 0
               /\ pc' = "header"
               /\ UNCHANGED failedAt
          ELSE /\ failedAt' = "open"
               /\ pc' = "except"
               /\ UNCHANGED <<fileExists, diskSize, handleOpen, written>>
    /\ UNCHANGED <<target_gb, target_bytes, num_rows_estimate, i, dirExists,
                   firstLine, lastLine, lastBytes, headerWrites, rowsWritten,
                   row, current_bytes, progress, queried, actual_size, stopped,
                   closedAtRemove, escaped>>
    /\ UNCHANGED dateVars

\* csvfile.write(line) of a writerow call that succeeds
WriteLine(line) ==
    /\ written' = written + EncodedBytes(line)
    /\ firstLine' = IF written = 0 THEN line ELSE firstLine
    /\ lastLine' = line
    /\ lastBytes' = EncodedBytes(line)

\* writer.writerow(headers) and the initial estimate, lines 101-103
WriteHeader ==
    /\ pc = "header"
    /\ \E ok \in BOOLEAN :
          IF ok
          THEN /\ WriteLine(writerow(headers))
               /\ headerWrites' = headerWrites + 1
               /\ current_bytes' = EstimatedBytes(headers)
               /\ pc' = "loop"
               /\ UNCHANGED failedAt
          ELSE /\ failedAt' = "write"
               /\ pc' = "unwind"
               /\ UNCHANGED <<written, firstLine, lastLine, lastBytes,
                              headerWrites, current_bytes>>
    /\ UNCHANGED <<target_gb, target_bytes, num_rows_estimate, i, dirExists,
                   fileExists, diskSize, handleOpen, rowsWritten, row, progress,
                   queried, actual_size, stopped, closedAtRemove, escaped>>
    /\ UNCHANGED dateVars

\* one iteration of the loop up to the progress report, lines 105-122
WriteRow ==
    /\ pc = "loop"
    /\ i < num_rows_estimate
    /\ \E r \in RunRows, ok \in BOOLEAN :
          /\ row' = r
          /\ IF ok
             THEN /\ WriteLine(writerow(r))
                  /\ rowsWritten' = rowsWritten + 1
                  /\ current_bytes' = current_bytes + EstimatedBytes(r)
                  /\ progress' = IF ShouldReport(i) THEN progress + 1 ELSE progress
                  /\ pc' = "check"
                  /\ UNCHANGED failedAt
             ELSE /\ failedAt' = "write"
                  /\ pc' = "unwind"
                  /\ UNCHANGED <<written, firstLine, lastLine, lastBytes,
                                 rowsWritten, current_bytes, progress>>
    /\ UNCHANGED <<target_gb, target_bytes, num_rows_estimate, i, dirExists,
                   fileExists, diskSize, handleOpen, headerWrites, queried,
                   actual_size, stopped, closedAtRemove, escaped>>
    /\ UNCHANGED dateVars

\* the periodic size check that ends the iteration, lines 125-131
PeriodicCheck ==
    /\ pc = "check"
    /\ IF ShouldCheck(i) /\ fileExists
       THEN \E ok \in BOOLEAN :
              IF ok
              THEN \E size \in GetSize(diskSize, written) :
                     /\ queried' = queried \cup {i}
                     /\ actual_size' = size
                     /\ IF size >= target_bytes
                        THEN /\ stopped' = TRUE
                             /\ pc' = "close"
                             /\ UNCHANGED i
                        ELSE /\ i' = i + 1
                             /\ pc' = "loop"
                             /\ UNCHANGED stopped
                     /\ UNCHANGED failedAt
              ELSE /\ queried' = queried \cup {i}
                   /\ failedAt' = "size"
                   /\ pc' = "unwind"
                   /\ UNCHANGED <<i, actual_size, stopped>>
       ELSE /\ i' = i + 1
            /\ pc' = "loop"
            /\ UNCHANGED <<queried, actual_size, stopped, failedAt>>
    /\ UNCHANGED <<target_gb, target_bytes, num_rows_estimate, dirExists,
                   fileExists, diskSize, handleOpen, written, firstLine,
                   lastLine, lastBytes, headerWrites, rowsWritten, row,
                   current_bytes, progress, closedAtRemove, escaped>>
    /\ UNCHANGED dateVars

\* range(num_rows_estimate) is exhausted
ExitLoop ==
    /\ pc = "loop"
    /\ i >= num_rows_estimate
    /\ pc' = "close"
    /\ UNCHANGED <<target_gb, target_bytes, num_rows_estimate, i, dirExists,
                   fileExists, diskSize, handleOpen, written, firstLine,
                   lastLine, lastBytes, headerWrites, rowsWritten, row,
                   current_bytes, progress, queried, actual_size, stopped,
                   failedAt, closedAtRemove, escaped>>
    /\ UNCHANGED dateVars

\* the with statement is left normally: csvfile is flushed and closed; a
\* failing flush raises after the handle is closed
CloseFile ==
    /\ pc = "close"
    /\ handleOpen' = FALSE
    /\ \E ok \in BOOLEAN :
          IF ok
          THEN /\ diskSize' = written
               /\ pc' = "report"
               /\ UNCHANGED failedAt
          ELSE /\ failedAt' = "write"
               /\ pc' = "except"
               /\ UNCHANGED diskSize
    /\ UNCHANGED <<target_gb, target_bytes, num_rows_estimate, i, dirExists,
                   fileExists, written, firstLine, lastLine, lastBytes,
                   headerWrites, rowsWritten, row, current_bytes, progress,
                   queried, actual_size, stopped, closedAtRemove, escaped>>
    /\ UNCHANGED dateVars

CloseOnError_leak ==
    /\ pc = "unwind"
    /\ pc' = "except"
    /\ UNCHANGED <<target_gb, target_bytes, num_rows_estimate, i, dirExists,
                   fileExists, diskSize, handleOpen, written, firstLine,
                   lastLine, lastBytes, headerWrites, rowsWritten, row,
                   current_bytes, progress, queried, actual_size, stopped,
                   failedAt, closedAtRemove, escaped>>
    /\ UNCHANGED dateVars

\* the with statement is left by an exception: csvfile is closed, whatever
\* its flush achieves, and the exception reaches the except clause
CloseOnError ==
    /\ pc = "unwind"
    /\ handleOpen' = FALSE
    /\ diskSize' \in {diskSize, written}
    /\ pc' = "except"
    /\ UNCHANGED <<target_gb, target_bytes, num_rows_estimate, i, dirExists,
                   fileExists, written, firstLine, lastLine, lastBytes,
                   headerWrites, rowsWritten, row, current_bytes, progress,
                   queried, actual_size, stopped, failedAt, closedAtRemove,
                   escaped>>
    /\ UNCHANGED dateVars

\* the final report, lines 133-139, inside the try statement
Report ==
    /\ pc = "report"
    /\ IF fileExists
       THEN \E ok \in BOOLEAN :
              IF ok
              THEN /\ pc' = "returned"
                   /\ UNCHANGED failedAt
              ELSE /\ failedAt' = "size"
                   /\ pc' = "except"
       ELSE /\ pc' = "returned"
            /\ UNCHANGED failedAt
    /\ UNCHANGED <<target_gb, target_bytes, num_rows_estimate, i, dirExists,
                   fileExists, diskSize, handleOpen, written, firstLine,
                   lastLine, lastBytes, headerWrites, rowsWritten, row,
                   current_bytes, progress, queried, actual_size, stopped,
                   closedAtRemove, escaped>>
    /\ UNCHANGED dateVars

ExceptHandler_keep ==
    /\ pc = "except"
    /\ pc' = "returned"
    /\ UNCHANGED <<target_gb, target_bytes, num_rows_estimate, i, dirExists,
                   fileExists, diskSize, handleOpen, written, firstLine,
                   lastLine, lastBytes, headerWrites, rowsWritten, row,
                   current_bytes, progress, queried, actual_size, stopped,
                   failedAt, closedAtRemove, escaped>>
    /\ UNCHANGED dateVars

\* the except clause, lines 141-145; an exception of os.remove leaves the
\* function
ExceptHandler ==
    /\ pc = "except"
    /\ IF fileExists
       THEN /\ closedAtRemove' = IF handleOpen THEN "open" ELSE "closed"
            /\ \E ok \in BOOLEAN :
                  IF ok
                  THEN /\ fileExists' = FALSE
                       /\ diskSize' = 0
                       /\ pc' = "returned"
                       /\ UNCHANGED escaped
                  ELSE /\ escaped' = "remove"
                       /\ pc' = "raised"
                       /\ UNCHANGED <<fileExists, diskSize>>
       ELSE /\ pc' = "returned"
            /\ UNCHANGED <<fileExists, diskSize, closedAtRemove, escaped>>
    /\ UNCHANGED <<target_gb, target_bytes, num_rows_estimate, i, dirExists,
                   handleOpen, written, firstLine, lastLine, lastBytes,
                   headerWrites, rowsWritten, row, current_bytes, progress,
                   queried, actual_size, stopped, failedAt>>
    /\ UNCHANGED dateVars

Next ==
    \/ Estimate
    \/ MakeDirs
    \/ OpenFile
    \/ WriteHeader
    \/ WriteRow
    \/ PeriodicCheck
    \/ ExitLoop
    \/ CloseFile
    \/ CloseOnError
    \/ Report
    \/ ExceptHandler

Spec == Init /\ [][Next]_vars

(***************************************************************************)
(* One assembly of a row (the list of the loop body), under every          *)
(* combination of the samplers' bounded draws.                             *)
(***************************************************************************)
RunIdle ==
    /\ InitRun
    /\ target_gb = 0
    /\ ~dirExists
    /\ ~fileExists

\* the draws taken from randrange(days_between_dates): the first and the
\* last offset, and the offset of 29 February 2016
DateDraws(sy, ey) ==
    {k \in DateOffsets(sy, ey) : k = 0 \/ k = 424 \/ (k + 1) \notin DateOffsets(sy, ey)}

CallerIds == {generate_phone_number(FALSE, TRUE, d) : d \in PhoneDraws}

Recipients == {generate_phone_number(TRUE, FALSE, d) : d \in PhoneDraws}

Dates == {generate_date(DefaultStartYear, DefaultEndYear, k) :
             k \in DateDraws(DefaultStartYear, DefaultEndYear)}

Times == {generate_time(t[1], t[2], t[3]) : t \in TimeDraws}

Durations == {generate_duration(d) : d \in DurationDraws}

Costs == {generate_cost(d) : d \in CostDraws}

References == {generate_reference(n[1], n[2]) : n \in ReferenceDraws}

InitRow == RunIdle /\ DateIdle /\ row = <<>>

\* lines 106-115
GenerateRow ==
    /\ row = <<>>
    /\ \E caller \in CallerIds, recipient \in Recipients, date \in Dates,
          time \in Times, duration \in Durations, cost \in Costs,
          reference \in References, currency \in currencies :
          row' = AssembleRow(caller, recipient, date, time, duration, cost,
                             reference, currency)
    /\ UNCHANGED runVars
    /\ UNCHANGED dateVars

NextRow == GenerateRow

SpecRow == InitRow /\ [][NextRow]_vars

(***************************************************************************)
(* One call of generate_date(start_year, end_year).                        *)
(***************************************************************************)
YearPairs ==
    {<<DefaultStartYear, DefaultEndYear>>}
        \cup {<<s, s + o>> : s \in DefaultStartYear..DefaultEndYear, o \in (-1)..MaxSpan}

InitDate ==
    /\ RunIdle
    /\ row = <<>>
    /\ \E p \in YearPairs : start_year = p[1] /\ end_year = p[2]
    /\ datePc = "call"
    /\ dateOut = <<>>

\* lines 35-41; randrange raises ValueError on an empty range
CallGenerateDate ==
    /\ datePc = "call"
    /\ IF days_between_dates(start_year, end_year) <= 0
       THEN /\ datePc' = "raised"
            /\ UNCHANGED dateOut
       ELSE \E random_number_of_days \in DateOffsets(start_year, end_year) :
              /\ dateOut' = generate_date(start_year, end_year, random_number_of_days)
              /\ datePc' = "returned"
    /\ UNCHANGED <<start_year, end_year, row>>
    /\ UNCHANGED runVars

NextDate == CallGenerateDate

SpecDate == InitDate /\ [][NextDate]_vars

(***************************************************************************)
(* Reading text back: what a consumer of the file sees.                    *)
(***************************************************************************)
IsDigit(c) == \E n \in 0..9 : Digit(n) = c

DigitVal(c) == CHOOSE n \in 0..9 : Digit(n) = c

AllDigits(s) == Len(s) > 0 /\ \A k \in 1..Len(s) : IsDigit(s[k])

RECURSIVE ParseInt(_)
ParseInt(s) ==
    IF s = <<>> THEN 0
    ELSE 10 * ParseInt(SubSeq(s, 1, Len(s) - 1)) + DigitVal(s[Len(s)])

RECURSIVE LineBody(_)
\* a line without the end-of-line characters that close it
LineBody(line) ==
    IF line # <<>> /\ line[Len(line)] \in {"\r", "\n"}
    THEN LineBody(SubSeq(line, 1, Len(line) - 1))
    ELSE line

\* the end-of-line characters that close a line
LineEnd(line) == SubSeq(line, Len(LineBody(line)) + 1, Len(line))

HeaderText ==
    <<"c","a","l","l","e","r","_","i","d",",","r","e","c","i","p","i","e","n","t",
      ",","c","a","l","l","_","d","a","t","e",",","e","n","d","_","t","i","m","e",
      ",","d","u","r","a","t","i","o","n",",","c","o","s","t",",",
      "r","e","f","e","r","e","n","c","e",",","c","u","r","r","e","n","c","y">>

\* DD/MM/YYYY naming a day of the calendar in the years lo..hi
IsDateIn(s, lo, hi) ==
    /\ Len(s) = 10
    /\ s[3] = "/" /\ s[6] = "/"
    /\ AllDigits(SubSeq(s, 1, 2)) /\ AllDigits(SubSeq(s, 4, 5)) /\ AllDigits(SubSeq(s, 7, 10))
    /\ LET dd == ParseInt(SubSeq(s, 1, 2))
           m == ParseInt(SubSeq(s, 4, 5))
           y == ParseInt(SubSeq(s, 7, 10))
       IN  /\ y \in lo..hi
           /\ m \in 1..12
           /\ dd >= 1
           /\ dd <= DaysInMonth(y, m)

\* HH:MM:SS of a 24-hour clock
IsTime(s) ==
    /\ Len(s) = 8
    /\ s[3] = ":" /\ s[6] = ":"
    /\ AllDigits(SubSeq(s, 1, 2)) /\ AllDigits(SubSeq(s, 4, 5)) /\ AllDigits(SubSeq(s, 7, 8))
    /\ ParseInt(SubSeq(s, 1, 2)) \in 0..23
    /\ ParseInt(SubSeq(s, 4, 5)) \in 0..59
    /\ ParseInt(SubSeq(s, 7, 8)) \in 0..59

IsUpperHex32(s) ==
    /\ Len(s) = 32
    /\ \A k \in 1..32 :
          s[k] \in {"0","1","2","3","4","5","6","7","8","9","A","B","C","D","E","F"}

\* every calendar day of the years sy..ey, as DD/MM/YYYY
CalendarDays(sy, ey) ==
    {strftime(t) : t \in {u \in (sy..ey) \X (1..12) \X (1..31) :
                               u[3] <= DaysInMonth(u[1], u[2])}}

\* the longest line a data row serialises to
MaxRowBytes == EncodedBytes(writerow(LongRow))

CompletedOk == pc = "returned" /\ failedAt = "none"

(***************************************************************************)
(* The claims.                                                             *)
(***************************************************************************)

\* C1: a run that completes without an I/O error leaves a file whose size S
\* satisfies target_bytes <= S < target_bytes + (check interval) x (longest
\* row).
C1_SizeReachesTarget ==
    CompletedOk =>
        /\ target_bytes <= diskSize
        /\ diskSize < target_bytes + CheckInterval * MaxRowBytes

\* C2: when generate_large_csv returns after an I/O failure of a write (of
\* the header, of a row, or of the flush that closes the file), no file
\* exists at the output path.
C2_NoPartialFile == (pc = "returned" /\ failedAt = "write") => ~fileExists

C2_Witness ==
    /\ pc = "returned"
    /\ failedAt = "write"
    /\ rowsWritten >= 2
    /\ closedAtRemove = "closed"

\* C3: for every target, negative and zero included, the file of a run that
\* completes without error starts with the fixed header line; the header is
\* written exactly once, and no data row is written before it.
C3_HeaderFirst ==
    /\ headerWrites <= 1
    /\ headerWrites = 0 => rowsWritten = 0
    /\ CompletedOk =>
          /\ headerWrites = 1
          /\ LineBody(firstLine) = HeaderText
          /\ LineEnd(firstLine) # <<>>

C3_Witness ==
    /\ CompletedOk
    /\ target_bytes < 0
    /\ rowsWritten = 0
    /\ fileExists

\* C4: no I/O failure of directory creation, file open, write or size query
\* leaves generate_large_csv as an exception, and a call that returns after
\* a failure has deleted the output file.
C4_AllCaught ==
    /\ escaped \notin {"makedirs", "open", "write", "size"}
    /\ (pc = "returned" /\ failedAt # "none") => ~fileExists

\* C5: every line written ends in exactly one "\n" and in no other
\* end-of-line character, so a line adds the length of its joined fields
\* plus 1 to the file.
C5_SingleNewline ==
    lastLine # <<>> =>
        /\ LineEnd(lastLine) = <<"\n">>
        /\ lastBytes = Len(LineBody(lastLine)) + 1

\* C6: in every assembled row call_date is a calendar day of 2015..2024,
\* end_time is a 24-hour time, duration is an integer in 1..7200, currency
\* is GBP, USD or EUR and reference is 32 characters of 0-9A-F.
C6_FieldDomains ==
    row # <<>> =>
        /\ Len(row) = 8
        /\ IsDateIn(row[3], 2015, 2024)
        /\ IsTime(row[4])
        /\ AllDigits(row[5])
        /\ ParseInt(row[5]) \in 1..7200
        /\ IsUpperHex32(row[7])
        /\ row[8] \in {<<"G","B","P">>, <<"U","S","D">>, <<"E","U","R">>}

C6_Witness ==
    /\ row # <<>>
    /\ row[1] = <<>>
    /\ row[3] = <<"2","9","/","0","2","/","2","0","1","6">>
    /\ row[4] = <<"2","3",":","5","9",":","5","9">>
    /\ row[5] = <<"7","2","0","0">>
    /\ row[8] = <<"E","U","R">>

\* the iterations 0 < n <= hi that are multiples of the check interval
CheckPoints(hi) == {n \in 1..hi : n % CheckInterval = 0}

\* C7: the size is queried exactly at the iterations i > 0 with
\* i mod interval = 0, after the row of that iteration is written; a queried
\* size >= target_bytes ends the loop at once, a smaller one continues it.
C7_PeriodicQuery ==
    /\ [](/\ queried \subseteq CheckPoints(i)
          /\ CheckPoints(i - 1) \subseteq queried
          /\ (pc = "loop" => queried = CheckPoints(i - 1))
          /\ (\A n \in queried : rowsWritten >= n + 1)
          /\ (stopped => (rowsWritten = i + 1 /\ pc \notin {"loop", "check"})))
    /\ [][(queried' # queried /\ failedAt' = "none") =>
             /\ rowsWritten = i + 1
             /\ rowsWritten' = rowsWritten
             /\ IF actual_size' >= target_bytes
                THEN stopped' /\ pc' = "close" /\ i' = i
                ELSE ~stopped' /\ pc' = "loop" /\ i' = i + 1]_vars

C7_Witness ==
    /\ CompletedOk
    /\ queried = {CheckInterval, 2 * CheckInterval}
    /\ rowsWritten = MaxRows
    /\ actual_size > 0

\* C8: a run that meets no I/O error writes exactly
\* max(0, target_bytes // 125) rows, target_bytes = int(target_gb * 2^30);
\* no periodic check sees a size >= target_bytes and the loop is never left
\* by break.
C8_ExactRowCount ==
    /\ ~stopped
    /\ actual_size < target_bytes \/ queried = {}
    /\ (pc \in {"close", "report", "returned"} /\ failedAt = "none") =>
          /\ target_bytes = IntTrunc(target_gb, Resolution)
          /\ rowsWritten = (IF target_bytes \div 125 > 0 THEN target_bytes \div 125 ELSE 0)

C8_Witness ==
    /\ CompletedOk
    /\ rowsWritten = MaxRows
    /\ Cardinality(queried) = 2
    /\ diskSize = written
    /\ lastBytes = MaxRowBytes

\* C9: once the file was opened, every exit path closes the handle, and
\* os.remove is only called on a closed handle.
C9_ClosedBeforeRemove ==
    /\ closedAtRemove # "open"
    /\ pc \in {"report", "except", "returned", "raised"} => ~handleOpen

C9_Witness ==
    /\ pc = "returned"
    /\ failedAt = "size"
    /\ queried # {}
    /\ closedAtRemove = "closed"
    /\ ~fileExists

\* C10: for start_year <= end_year the dates generate_date can return are
\* exactly the calendar days from 1 January of start_year to 31 December of
\* end_year, and the call does not raise.
C10_WholeRange ==
    (datePc \in {"returned", "raised"} /\ start_year <= end_year) =>
        /\ {generate_date(start_year, end_year, k) : k \in DateOffsets(start_year, end_year)}
              = CalendarDays(start_year, end_year)
        /\ datePc # "raised"

====
